---- MODULE Spec2Model ----
(***************************************************************************)
(* EnvironmentController of docker_test_tools/environment.py.              *)
(*                                                                         *)
(* The controller runs on a single control thread.  Every method is an     *)
(* operator over a context record c that carries the controller's fields   *)
(* (logs_file, logs_process), the part of the outside world the methods    *)
(* act on (file handles, collector processes, the combined log, the        *)
(* per-service logs, the containers), the trace tr of the effects issued   *)
(* so far and the pending exception exc.                                   *)
(***************************************************************************)
EXTENDS Integers, Sequences, FiniteSets, TLC

VARIABLES
    reuse_containers,  \* self.reuse_containers
    logs_file,         \* self.logs_file: 0 is None, else a handle (index of files)
    logs_process,      \* self.logs_process: 0 is None, else a pid (index of procs)
    files,             \* handle -> "open" | "closed": file objects made by open(log_path, 'w')
    procs,             \* pid -> "running" | "reaped": collector processes made by Popen
    log_exists,        \* whether the file at log_path exists
    combined_log,      \* the lines of the file at log_path
    service_logs,      \* service -> [created, open, text]: <service>.log and its handle
    containers,        \* service -> [status, health]: the runtime's containers
    scope,             \* the open fault-injection scopes (container_down / container_paused)
    wait,              \* the running waiting.wait loop of wait_for_services, or NoWait
    last               \* the last finished call: what it issued and how it ended;
                       \* NoCall while wait_for_services is running

vars == <<reuse_containers, logs_file, logs_process, files, procs, log_exists,
          combined_log, service_logs, containers, scope, wait, last>>

----------------------------------------------------------------------------
(* Bounds *)

MaxStarts == 2
MaxLines == 1
MaxTimeout == 2

----------------------------------------------------------------------------
(* Text: a string is a tuple of one-character strings *)

SEPARATOR == "|"
UNDERSCORE == "_"

web == <<"w", "e", "b">>
db == <<"d", "b">>
ghost == <<"g", "h", "o", "s", "t">>

\* self.services, the list get_services returns
services == <<web, db>>
ServiceSet == {services[i] : i \in DOMAIN services}
\* names a caller may pass: the services and one that is not a service
Names == ServiceSet \cup {ghost}
\* the services whose compose entry declares a health check
HealthChecked == {web}

LineWeb == <<"w", "e", "b", "_", "1", " ", " ", "|", " ", "h", "e", "l", "l", "o", "\n">>
LineNoSep == <<"o", "o", "p", "s", "\n">>
LineGhost == <<"g", "h", "o", "s", "t", "_", "1", " ", "|", " ", "x", "\n">>
SampleLines == {LineWeb, LineNoSep, LineGhost}

Min(a, b) == IF a < b THEN a ELSE b
Max(a, b) == IF a > b THEN a ELSE b

\* str.find(ch): 0-based index of the first occurrence, -1 when absent
find(s, ch) ==
    IF \E i \in 1..Len(s) : s[i] = ch
    THEN (CHOOSE i \in 1..Len(s) : s[i] = ch /\ \A j \in 1..(i - 1) : s[j] # ch) - 1
    ELSE -1

\* str.rfind(ch, start, end): 0-based index of the last occurrence in s[start:end], -1 when absent
rfind(s, ch, start, end) ==
    LET hits == {i \in (start + 1)..Min(end, Len(s)) : s[i] = ch}
    IN IF hits = {} THEN -1
       ELSE (CHOOSE i \in hits : \A j \in hits : j <= i) - 1

\* s[:k], Python slicing: a negative k counts from the end
SliceTo(s, k) ==
    IF k >= 0 THEN SubSeq(s, 1, Min(k, Len(s)))
    ELSE SubSeq(s, 1, Max(Len(s) + k, 0))

\* s[k + 1:]: one character more is dropped
SliceFromNext(s, k) == SubSeq(s, k + 2, Len(s))

\* s[k:] for k >= 0
SliceFrom(s, k) == SubSeq(s, k + 1, Len(s))

----------------------------------------------------------------------------
(* Exceptions, effects and external calls.  A method maps a context to the  *)
(* set of contexts it can end in: one per outcome of its external calls.    *)

NoExc == [type |-> "None", at |-> 0]
Raised(c) == c.exc.type # "None"

\* an effect: kind e, argument a (a name, a list of names, or <<>>), outcome ok
Ev(kind, arg, ok) == [e |-> kind, a |-> arg, ok |-> ok]
Note(c, kind, arg, ok) == [c EXCEPT !.tr = Append(@, Ev(kind, arg, ok))]

\* a method was entered
Enter(c, method) == Note(c, method, <<>>, TRUE)

\* an effect that cannot fail
Effect(c, kind, arg) == Note(c, kind, arg, TRUE)

\* raise: the exception is identified by its type and the effect it comes from
Raise(c, type) == [c EXCEPT !.exc = [type |-> type, at |-> Len(c.tr)]]

\* a fallible external call: it succeeds, or it fails and raises `type`
Try(c, kind, arg, type) ==
    {Note(c, kind, arg, TRUE), Raise(Note(c, kind, arg, FALSE), type)}

\* S; F : F runs from the contexts of S in which nothing was raised
Then(S, F(_)) == UNION {IF Raised(c) THEN {c} ELSE F(c) : c \in S}

\* try: S finally: F : F always runs; what F raises replaces the pending exception
Finally(S, F(_)) ==
    UNION {{IF Raised(d) THEN d ELSE [d EXCEPT !.exc = c.exc] :
                d \in F([c EXCEPT !.exc = NoExc])} : c \in S}

\* try: S except: F; raise : F runs when S raised, then the exception of S is
\* raised again unless F raised
ExceptReraise(S, F(_)) ==
    UNION {IF ~Raised(c) THEN {c}
           ELSE {IF Raised(d) THEN d ELSE [d EXCEPT !.exc = c.exc] :
                    d \in F([c EXCEPT !.exc = NoExc])} : c \in S}

----------------------------------------------------------------------------
(* The container runtime: what a successful command does to the containers *)

DefaultHealth(s) == IF s \in HealthChecked THEN "starting" ELSE "none"
Absent(s) == [status |-> "absent", health |-> DefaultHealth(s)]
Fresh(s) == [status |-> "running", health |-> DefaultHealth(s)]

\* docker-compose up -d
UpAll(ctr) ==
    [s \in ServiceSet |->
        IF ctr[s].status \in {"absent", "exited"} THEN Fresh(s) ELSE ctr[s]]

\* docker-compose kill [name]: the health status stays as last reported
Killed(ctr, s) ==
    IF ctr[s].status \in {"running", "paused"}
    THEN [ctr[s] EXCEPT !.status = "exited"] ELSE ctr[s]
KillAll(ctr) == [s \in ServiceSet |-> Killed(ctr, s)]
KillOne(ctr, name) ==
    IF name \in DOMAIN ctr THEN [ctr EXCEPT ![name] = Killed(ctr, name)] ELSE ctr

\* docker-compose rm -f: removes the stopped containers
RmAll(ctr) ==
    [s \in ServiceSet |-> IF ctr[s].status = "exited" THEN Absent(s) ELSE ctr[s]]

\* docker-compose restart name
RestartOne(ctr, name) ==
    IF name \in DOMAIN ctr /\ ctr[name].status \in {"running", "exited"}
    THEN [ctr EXCEPT ![name] = Fresh(name)] ELSE ctr

\* docker-compose pause name / unpause name
PauseOne(ctr, name) ==
    IF name \in DOMAIN ctr /\ ctr[name].status = "running"
    THEN [ctr EXCEPT ![name].status = "paused"] ELSE ctr
UnpauseOne(ctr, name) ==
    IF name \in DOMAIN ctr /\ ctr[name].status = "paused"
    THEN [ctr EXCEPT ![name].status = "running"] ELSE ctr

\* the container of a name; a name the compose file does not declare has none
StateOf(ctr, name) == IF name \in DOMAIN ctr THEN ctr[name] ELSE Absent(name)

----------------------------------------------------------------------------
(* Container commands of the whole environment *)

\* kill_containers: docker-compose kill
kill_containers(c) ==
    {IF Raised(c1) THEN c1 ELSE [c1 EXCEPT !.containers = KillAll(@)] :
        c1 \in Try(c, "kill_all", <<>>, "RuntimeError")}

\* remove_containers: docker-compose rm -f
remove_containers(c) ==
    {IF Raised(c1) THEN c1 ELSE [c1 EXCEPT !.containers = RmAll(@)] :
        c1 \in Try(c, "rm", <<>>, "RuntimeError")}

\* run_containers: docker-compose up --build -d
run_containers(c) ==
    {IF Raised(c1) THEN c1 ELSE [c1 EXCEPT !.containers = UpAll(@)] :
        c1 \in Try(Enter(c, "run_containers"), "up", <<>>, "RuntimeError")}

\* cleanup that removes before it kills
cleanup_remove_then_kill(c) ==
    IF reuse_containers THEN {Enter(c, "cleanup")}
    ELSE Then(remove_containers(Enter(c, "cleanup")), kill_containers)

\* cleanup: nothing when reuse_containers, else kill then remove
cleanup(c) ==
    IF reuse_containers THEN {Enter(c, "cleanup")}
    ELSE Then(kill_containers(Enter(c, "cleanup")), remove_containers)

----------------------------------------------------------------------------
(* Log collection *)

\* rebinding self.logs_file drops the last reference to the file object it held,
\* which closes it (reference counting)
Unreferenced(c) ==
    IF c.logs_file = 0 THEN c.files ELSE [c.files EXCEPT ![c.logs_file] = "closed"]

\* self.logs_file = open(self.log_path, 'w')
open_logs_file(c) ==
    {IF Raised(c1) THEN c1
     ELSE [c1 EXCEPT !.files = Append(Unreferenced(c1), "open"),
                     !.logs_file = Len(c1.files) + 1,
                     !.log_exists = TRUE,
                     !.combined_log = <<>>] :
        c1 \in Try(c, "open_w", <<>>, "IOError")}

\* self.logs_process = subprocess.Popen([... 'logs', '-f' ...], stdout=self.logs_file)
popen_logs_process(c) ==
    {IF Raised(c1) THEN c1
     ELSE [c1 EXCEPT !.procs = Append(@, "running"),
                     !.logs_process = Len(c1.procs) + 1] :
        c1 \in Try(c, "popen", <<>>, "OSError")}

\* start_log_collection
start_log_collection(c) ==
    Then(open_logs_file(Enter(c, "start_log_collection")), popen_logs_process)

\* self.logs_process.kill(); self.logs_process.wait()
\* kill() is os.kill(pid, SIGKILL).  On a child not yet waited for it cannot fail.
\* On a child that was already waited for, the pid is gone (OSError) or belongs to
\* another process by now (the call succeeds): both outcomes are kept.
kill_and_wait(c) ==
    LET pid == c.logs_process
    IN IF c.procs[pid] = "running"
       THEN {[Effect(Effect(c, "proc_kill", <<>>), "proc_wait", <<>>)
                 EXCEPT !.procs[pid] = "reaped"]}
       ELSE {IF Raised(c1) THEN c1 ELSE Effect(c1, "proc_wait", <<>>) :
                c1 \in Try(c, "proc_kill", <<>>, "OSError")}

\* if self.logs_file: self.logs_file.close()
close_logs_file(c) ==
    IF c.logs_file # 0
    THEN {[Effect(c, "close", <<>>) EXCEPT !.files[c.logs_file] = "closed"]}
    ELSE {c}

\* stop_log_collection
stop_log_collection(c) ==
    LET c0 == Enter(c, "stop_log_collection")
    IN Then(IF c0.logs_process # 0 THEN kill_and_wait(c0) ELSE {c0}, close_logs_file)

----------------------------------------------------------------------------
(* Log splitting *)

AllClosed(slogs) == [s \in ServiceSet |-> [slogs[s] EXCEPT !.open = FALSE]]

\* the dict comprehension: open(<service>.log, 'w') for each service, in order.
\* When one open fails the file objects made so far are unreferenced, hence closed.
RECURSIVE open_service_logs(_, _)
open_service_logs(c, i) ==
    IF i > Len(services) THEN {c}
    ELSE LET s == services[i]
         IN UNION {IF Raised(c1)
                   THEN {[c1 EXCEPT !.service_logs = AllClosed(@)]}
                   ELSE open_service_logs(
                           [c1 EXCEPT !.service_logs[s] =
                               [created |-> TRUE, open |-> TRUE, text |-> <<>>]], i + 1) :
                      c1 \in Try(c, "open_service_log", s, "IOError")}

\* the loop over combined_log_file.readlines()
RECURSIVE write_lines(_, _)
write_lines(c, i) ==
    IF i > Len(c.combined_log) THEN c
    ELSE LET log_line == c.combined_log[i]
             separator_location == find(log_line, SEPARATOR)
         IN IF separator_location = -1 THEN write_lines(c, i + 1)
            ELSE LET service_name ==
                         SliceTo(log_line, rfind(log_line, UNDERSCORE, 0, separator_location))
                     message == SliceFrom(log_line, separator_location + 1)
                 IN IF service_name \notin ServiceSet
                    THEN Raise(Note(c, "write", service_name, FALSE), "KeyError")
                    ELSE write_lines(
                            [Effect(c, "write", service_name)
                                EXCEPT !.service_logs[service_name].text = @ \o message],
                            i + 1)

\* with open(self.log_path, 'r') as combined_log_file: for log_line in ...
read_and_write(c) ==
    LET c1 == Note(c, "open_r", <<>>, c.log_exists)
    IN {IF c.log_exists THEN write_lines(c1, 1) ELSE Raise(c1, "IOError")}

\* the finally clause: close every per-service file
close_service_logs(c) ==
    {[c EXCEPT !.tr = @ \o [i \in 1..Len(services) |->
                                Ev("close_service_log", services[i], TRUE)],
               !.service_logs = AllClosed(@)]}

\* the per-service files closed after the loop instead of in a finally clause
split_body_without_finally(c) == Then(read_and_write(c), close_service_logs)

\* the try statement of split_logs
split_body(c) == Finally(read_and_write(c), close_service_logs)

\* split_logs
split_logs(c) ==
    Then(open_service_logs(Enter(c, "split_logs"), 1), split_body)

----------------------------------------------------------------------------
(* Lifecycle *)

\* the try clause of teardown
stop_and_split(c) == Then(stop_log_collection(c), split_logs)

\* teardown with cleanup() after the try statement instead of in its finally clause
teardown_cleanup_not_in_finally(c) == Then(stop_and_split(Enter(c, "teardown")), cleanup)

\* teardown: try: stop_log_collection(); split_logs()  finally: cleanup()
teardown(c) == Finally(stop_and_split(Enter(c, "teardown")), cleanup)

\* the try clause of setup with the collector started before the containers
bring_up_collector_first(c) ==
    Then(Then(cleanup(c), start_log_collection), run_containers)

\* the try clause of setup
bring_up(c) == Then(Then(cleanup(c), run_containers), start_log_collection)

\* setup: try: cleanup(); run_containers(); start_log_collection()
\*        except: teardown(); raise
setup(c) == ExceptReraise(bring_up(Enter(c, "setup")), teardown)

----------------------------------------------------------------------------
(* Commands on one container *)

\* validate_service_name that accepts every name
validate_nothing(c, name) == {c}

\* validate_service_name
validate_service_name(c, name) ==
    {IF name \in ServiceSet THEN c ELSE Raise(c, "ValueError")}

\* subprocess.check_output([docker-compose ... kind, name]) of kill_container,
\* restart_container, pause_container and unpause_container
compose_command(c, kind, name, after) ==
    {IF Raised(c1) THEN c1 ELSE [c1 EXCEPT !.containers = after] :
        c1 \in Try(c, kind, name, "RuntimeError")}

\* kill_container
kill_container(c, name) ==
    Then(validate_service_name(c, name),
         LAMBDA d : compose_command(d, "kill", name, KillOne(d.containers, name)))

\* restart_container
restart_container(c, name) ==
    Then(validate_service_name(c, name),
         LAMBDA d : compose_command(d, "restart", name, RestartOne(d.containers, name)))

\* pause_container
pause_container(c, name) ==
    Then(validate_service_name(c, name),
         LAMBDA d : compose_command(d, "pause", name, PauseOne(d.containers, name)))

\* unpause_container
unpause_container(c, name) ==
    Then(validate_service_name(c, name),
         LAMBDA d : compose_command(d, "unpause", name, UnpauseOne(d.containers, name)))

\* docker-compose ps -q name: the id of the service's container, empty when it has none
ps_q(c, name) ==
    {IF Raised(c1) THEN c1
     ELSE [c1 EXCEPT !.ret = IF StateOf(c1.containers, name).status = "absent"
                             THEN "" ELSE "id"] :
        c1 \in Try(c, "ps", name, "RuntimeError")}

\* get_container_id
get_container_id(c, name) ==
    Then(validate_service_name(c, name), LAMBDA d : ps_q(d, name))

----------------------------------------------------------------------------
(* Readiness *)

\* docker inspect --format='{{json .State}}': the state as text.  The text is the
\* sequence of its "key":value pieces; <<k, v>> stands for "k":"v" and <<k>> for "k":
Render(st) ==
    << <<"Status", st.status>>,
       <<"Running", IF st.status \in {"running", "paused"} THEN "true" ELSE "false">>,
       <<"Paused", IF st.status = "paused" THEN "true" ELSE "false">> >>
    \o (IF st.health # "none"
        THEN << <<"Health">>, <<"Status", st.health>> >> ELSE <<>>)

\* needle in status_output
Contains(status_output, needle) ==
    \E i \in 1..Len(status_output) : status_output[i] = needle

\* the classification without the health-check branch
is_ready_ignores_health(status_output) ==
    Contains(status_output, <<"Status", "running">>)

\* the classification taking a declared health check for a passed one
is_ready_when_health_declared(status_output) ==
    IF Contains(status_output, <<"Health">>) THEN TRUE
    ELSE Contains(status_output, <<"Status", "running">>)

\* lines 267-270: the classification of the state text
is_ready(status_output) ==
    IF Contains(status_output, <<"Health">>)
    THEN Contains(status_output, <<"Status", "healthy">>)
    ELSE Contains(status_output, <<"Status", "running">>)

PyBool(b) == IF b THEN "True" ELSE "False"

\* lines 257-273: docker inspect of container_id, then the classification.
\* inspect fails without an id; with one it can still fail (the container is gone
\* by now, the daemon does not answer): the method then returns False
inspect_and_classify(c, name) ==
    LET container_id == c.ret
        failed == [Note(c, "inspect", name, FALSE) EXCEPT !.ret = "False"]
        st == StateOf(c.containers, name)
    IN IF container_id = "" THEN {failed}
       ELSE {failed,
             [Note(c, "inspect", name, TRUE)
                 EXCEPT !.ret = PyBool(is_ready(Render(st))), !.obs = st]}

\* is_container_ready
is_container_ready(c, name) ==
    Then(Then(validate_service_name(c, name), LAMBDA d : get_container_id(d, name)),
         LAMBDA d : inspect_and_classify(d, name))

----------------------------------------------------------------------------
(* Waiting for services *)

\* services if services else self.services
requested(svcs) == IF svcs = <<>> THEN services ELSE svcs

\* a disjunction of the checks in place of their conjunction
any(checks) == \E k \in 1..Len(checks) : checks[k] = "True"

\* all(...) of line 286
all(checks) == \A k \in 1..Len(checks) : checks[k] = "True"

\* service_checks: all([self.is_container_ready(name) for name in services]).
\* The list is built first, so every service is probed; c.checks is the list
RECURSIVE service_checks(_, _, _)
service_checks(c, svcs, i) ==
    IF i > Len(svcs)
    THEN {[c EXCEPT !.ret = PyBool(all(c.checks))]}
    ELSE UNION {IF Raised(d) THEN {d}
                ELSE service_checks([d EXCEPT !.checks = Append(@, d.ret)], svcs, i + 1) :
                   d \in is_container_ready(c, svcs[i])}

\* one iteration of waiting.wait(service_checks, sleep_seconds, timeout_seconds) as
\* wait_for_services runs it: "raise" when the predicate raised, "True" when it held,
\* "False" when it did not hold and the timeout has expired (TimeoutExpired, which
\* wait_for_services turns into False), else "sleep"
poll_outcome(c, w) ==
    IF Raised(c) THEN "raise"
    ELSE IF c.ret = "True" THEN "True"
    ELSE IF w.elapsed >= w.timeout THEN "False"
    ELSE "sleep"

----------------------------------------------------------------------------
(* Fault-injection scopes *)

\* container_down that reaches its yield whether the kill command failed or not
container_down_enter_unchecked(c, name) ==
    {[d EXCEPT !.exc = NoExc] : d \in kill_container(c, name)}

\* container_down up to its yield: validate, kill
container_down_enter(c, name) ==
    Then(validate_service_name(c, name), LAMBDA d : kill_container(d, name))

\* container_paused up to its yield: validate, pause
container_paused_enter(c, name) ==
    Then(validate_service_name(c, name), LAMBDA d : pause_container(d, name))

\* the restore commands of the two scopes exchanged
scope_restore_exchanged(c, kind, name) ==
    IF kind = "container_down" THEN unpause_container(c, name)
    ELSE restart_container(c, name)

\* the first statement of the finally clause: restart_container / unpause_container
scope_restore(c, kind, name) ==
    IF kind = "container_down" THEN restart_container(c, name)
    ELSE unpause_container(c, name)

\* the restore command after the block instead of in a finally clause
scope_restore_not_in_finally(c, kind, name) ==
    IF Raised(c) THEN {c} ELSE scope_restore(c, kind, name)

\* try: yield  finally: restore ... : the finally clause is entered whether the
\* block raised or not; the exception of the block stays pending (ScopeExit keeps it)
scope_finally(c, kind, name) == scope_restore([c EXCEPT !.exc = NoExc], kind, name)

\* the protected block ends, normally or raising
block_end(c, block_raised) ==
    IF block_raised THEN Raise(Note(c, "block", <<>>, FALSE), "BlockError")
    ELSE Note(c, "block", <<>>, TRUE)

----------------------------------------------------------------------------
(* Calls *)

\* no wait_for_services is running
NoWait ==
    [active |-> FALSE, services |-> <<>>, interval |-> 0, timeout |-> 0, elapsed |-> 0,
     polls |-> 0, caller |-> "none", name |-> <<>>, pending |-> NoExc, tr |-> <<>>]
NoObs == [status |-> "none", health |-> "none"]

\* no call has finished yet, or one is in progress
NoCall == [op |-> "none", name |-> <<>>, tr |-> <<>>, exc |-> NoExc,
           result |-> "None", obs |-> NoObs, polls |-> 0]

\* the context a call starts from
Ctx ==
    [logs_file |-> logs_file, logs_process |-> logs_process, files |-> files,
     procs |-> procs, log_exists |-> log_exists, combined_log |-> combined_log,
     service_logs |-> service_logs, containers |-> containers,
     tr |-> <<>>, exc |-> NoExc, ret |-> "None", obs |-> NoObs, checks |-> <<>>]

\* the call returns or raises: its context becomes the state
World(c) ==
    /\ logs_file' = c.logs_file
    /\ logs_process' = c.logs_process
    /\ files' = c.files
    /\ procs' = c.procs
    /\ log_exists' = c.log_exists
    /\ combined_log' = c.combined_log
    /\ service_logs' = c.service_logs
    /\ containers' = c.containers

\* the record of a finished call: what it issued (tr), what it raised (exc), what it
\* returned (result) and the container state it inspected last (obs; for a scope, the
\* state of its container when the scope is left)
Call(op, name, c) ==
    [op |-> op, name |-> name, tr |-> c.tr, exc |-> c.exc,
     result |-> IF Raised(c) THEN "None" ELSE c.ret, obs |-> c.obs, polls |-> 0]

Idle == ~wait.active

Setup ==
    /\ Idle
    /\ Len(files) < MaxStarts
    /\ \E c \in setup(Ctx) :
         /\ World(c)
         /\ last' = Call("setup", <<>>, c)
    /\ UNCHANGED <<reuse_containers, scope, wait>>

Teardown ==
    /\ Idle
    /\ \E c \in teardown(Ctx) :
         /\ World(c)
         /\ last' = Call("teardown", <<>>, c)
    /\ UNCHANGED <<reuse_containers, scope, wait>>

StartLogCollection ==
    /\ Idle
    /\ Len(files) < MaxStarts
    /\ \E c \in start_log_collection(Ctx) :
         /\ World(c)
         /\ last' = Call("start_log_collection", <<>>, c)
    /\ UNCHANGED <<reuse_containers, scope, wait>>

StopLogCollection ==
    /\ Idle
    /\ \E c \in stop_log_collection(Ctx) :
         /\ World(c)
         /\ last' = Call("stop_log_collection", <<>>, c)
    /\ UNCHANGED <<reuse_containers, scope, wait>>

\* the collector process appends a line of the containers' output to the combined log
CollectorWrites ==
    /\ \E p \in DOMAIN procs : procs[p] = "running"
    /\ log_exists
    /\ Len(combined_log) < MaxLines
    /\ \E line \in SampleLines : combined_log' = Append(combined_log, line)
    /\ UNCHANGED <<reuse_containers, logs_file, logs_process, files, procs, log_exists,
                   service_logs, containers, scope, wait, last>>

----------------------------------------------------------------------------
(* Calls on one container *)

Finish(op, name, c) ==
    /\ World(c)
    /\ last' = Call(op, name, c)
    /\ UNCHANGED <<reuse_containers, scope, wait>>

KillContainer ==
    /\ Idle
    /\ \E name \in Names : \E c \in kill_container(Ctx, name) :
         Finish("kill_container", name, c)

RestartContainer ==
    /\ Idle
    /\ \E name \in Names : \E c \in restart_container(Ctx, name) :
         Finish("restart_container", name, c)

PauseContainer ==
    /\ Idle
    /\ \E name \in Names : \E c \in pause_container(Ctx, name) :
         Finish("pause_container", name, c)

UnpauseContainer ==
    /\ Idle
    /\ \E name \in Names : \E c \in unpause_container(Ctx, name) :
         Finish("unpause_container", name, c)

GetContainerId ==
    /\ Idle
    /\ \E name \in Names : \E c \in get_container_id(Ctx, name) :
         Finish("get_container_id", name, c)

IsContainerReady ==
    /\ Idle
    /\ \E name \in Names : \E c \in is_container_ready(Ctx, name) :
         Finish("is_container_ready", name, c)

\* wait_for_services is called: the loop starts
WaitArgs == {<<>>, <<web>>, <<db>>, <<ghost>>}
Intervals == {1, 2}

WaitForServices ==
    /\ Idle
    /\ \E svcs \in WaitArgs, interval \in Intervals, timeout \in 0..MaxTimeout :
         wait' = [NoWait EXCEPT !.active = TRUE, !.services = requested(svcs),
                                !.interval = interval, !.timeout = timeout,
                                !.caller = "wait_for_services",
                                !.tr = <<Ev("wait_for", requested(svcs), TRUE)>>]
    /\ last' = NoCall
    /\ UNCHANGED <<reuse_containers, logs_file, logs_process, files, procs, log_exists,
                   combined_log, service_logs, containers, scope>>

\* the trace of the running call up to and including its wait_for effect; of the
\* polls of the loop the trace keeps the last one, and polls counts them
WaitHead(w) ==
    IF w.polls = 0 THEN w.tr ELSE SubSeq(w.tr, 1, Len(w.tr) - 1)

\* the call that runs the loop returns or raises
WaitDone(c, tr, outcome) ==
    LET exc == IF outcome = "raise" THEN [type |-> c.exc.type, at |-> Len(tr)]
               ELSE IF wait.caller = "wait_for_services" THEN NoExc
               ELSE wait.pending
    IN last' = [op |-> wait.caller, name |-> wait.name, tr |-> tr, exc |-> exc,
                result |-> IF wait.caller = "wait_for_services" /\ outcome # "raise"
                           THEN outcome ELSE "None",
                obs |-> IF wait.caller = "wait_for_services" THEN NoObs
                        ELSE StateOf(containers, wait.name),
                polls |-> wait.polls + 1]

\* one iteration of the loop: probe every requested service, then return, raise or sleep
WaitPoll ==
    /\ wait.active
    /\ \E c \in service_checks(Ctx, wait.services, 1) :
         LET outcome == poll_outcome(c, wait)
             checks == IF Raised(c) THEN Append(c.checks, "raise") ELSE c.checks
             tr == Append(WaitHead(wait), Ev("poll", checks, outcome = "True"))
         IN IF outcome = "sleep"
            THEN /\ wait' = [wait EXCEPT !.elapsed = @ + wait.interval,
                                         !.polls = @ + 1, !.tr = tr]
                 /\ last' = NoCall
            ELSE /\ wait' = NoWait
                 /\ WaitDone(c, tr, outcome)
    /\ UNCHANGED <<reuse_containers, logs_file, logs_process, files, procs, log_exists,
                   combined_log, service_logs, containers, scope>>

\* with controller.container_down(name, interval, timeout): / container_paused(...):
\* the scope is entered, or the call raises.  Scopes are not nested.  interval and
\* timeout are not used before the scope is left: they are drawn there
ScopeEnter(kind, name, c) ==
    /\ World(c)
    /\ IF Raised(c)
       THEN /\ last' = Call(kind, name, c)
            /\ scope' = scope
       ELSE /\ last' = Call("enter", name, c)
            /\ scope' = Append(scope, [kind |-> kind, name |-> name, tr |-> c.tr])
    /\ UNCHANGED <<reuse_containers, wait>>

ContainerDown ==
    /\ Idle
    /\ scope = <<>>
    /\ \E name \in Names : \E c \in container_down_enter(Ctx, name) :
         ScopeEnter("container_down", name, c)

ContainerPaused ==
    /\ Idle
    /\ scope = <<>>
    /\ \E name \in Names : \E c \in container_paused_enter(Ctx, name) :
         ScopeEnter("container_paused", name, c)

\* the protected block of the innermost scope ends: the finally clause runs the
\* restore command and, unless that raised, starts wait_for_services([name])
ScopeExit ==
    /\ Idle
    /\ scope # <<>>
    /\ \E block_raised \in BOOLEAN, interval \in Intervals, timeout \in 0..MaxTimeout :
         LET sc == scope[Len(scope)]
             c0 == block_end([Ctx EXCEPT !.tr = sc.tr], block_raised)
         IN \E c \in scope_finally(c0, sc.kind, sc.name) :
              /\ World(c)
              /\ scope' = SubSeq(scope, 1, Len(scope) - 1)
              /\ IF Raised(c)
                 THEN /\ last' = [Call(sc.kind, sc.name, c)
                                    EXCEPT !.obs = StateOf(c.containers, sc.name)]
                      /\ wait' = wait
                 ELSE /\ last' = NoCall
                      /\ wait' = [NoWait EXCEPT
                                    !.active = TRUE, !.services = <<sc.name>>,
                                    !.interval = interval, !.timeout = timeout,
                                    !.caller = sc.kind, !.name = sc.name,
                                    !.pending = c0.exc,
                                    !.tr = Append(c.tr, Ev("wait_for", <<sc.name>>, TRUE))]
    /\ UNCHANGED reuse_containers

\* the runtime on its own: a container's process exits (the health status stays as
\* last reported, or turns unhealthy), or its health check reports a new status
ContainerSteps(st) ==
    (IF st.status = "running"
     THEN {[st EXCEPT !.status = "exited"]} \cup
          (IF st.health # "none"
           THEN {[status |-> "exited", health |-> "unhealthy"]} \cup
                {[st EXCEPT !.health = h] : h \in {"healthy", "unhealthy"} \ {st.health}}
           ELSE {})
     ELSE {})

ContainerEvent ==
    /\ \E s \in ServiceSet : \E st \in ContainerSteps(containers[s]) :
         containers' = [containers EXCEPT ![s] = st]
    /\ UNCHANGED <<reuse_containers, logs_file, logs_process, files, procs, log_exists,
                   combined_log, service_logs, scope, wait, last>>

----------------------------------------------------------------------------
(* Specification of the lifecycle *)

\* after __init__: logs_file and logs_process are None; the environment is whatever
\* the host holds: no containers yet, or the containers of a previous run
InitContainers ==
    {[s \in ServiceSet |-> Absent(s)], [s \in ServiceSet |-> Fresh(s)]}

Init ==
    /\ reuse_containers \in BOOLEAN
    /\ logs_file = 0
    /\ logs_process = 0
    /\ files = <<>>
    /\ procs = <<>>
    /\ log_exists \in BOOLEAN
    /\ combined_log = <<>>
    /\ service_logs = [s \in ServiceSet |-> [created |-> FALSE, open |-> FALSE, text |-> <<>>]]
    /\ containers \in InitContainers
    /\ scope = <<>>
    /\ wait = NoWait
    /\ last = NoCall

Next ==
    \/ Setup
    \/ Teardown
    \/ StartLogCollection
    \/ StopLogCollection
    \/ CollectorWrites

Spec == Init /\ [][Next]_vars

----------------------------------------------------------------------------
(* Specification of the calls on single containers, on an environment that is up *)

InitOps ==
    /\ Init
    /\ ~reuse_containers
    /\ log_exists
    /\ containers = [s \in ServiceSet |-> Fresh(s)]

NextOps ==
    \/ KillContainer
    \/ RestartContainer
    \/ PauseContainer
    \/ UnpauseContainer
    \/ GetContainerId
    \/ IsContainerReady
    \/ WaitForServices
    \/ WaitPoll
    \/ ContainerDown
    \/ ContainerPaused
    \/ ScopeExit
    \/ ContainerEvent

SpecOps == InitOps /\ [][NextOps]_vars

----------------------------------------------------------------------------
(* Properties of setup and teardown *)

\* the positions of the effects of one kind in a trace
At(tr, kind) == {i \in 1..Len(tr) : tr[i].e = kind}

SetupRaised == last.op = "setup" /\ last.exc # NoExc

\* the effects of stop_log_collection and split_logs, and those of cleanup
StopSplitKinds ==
    {"stop_log_collection", "proc_kill", "proc_wait", "close", "split_logs",
     "open_service_log", "open_r", "write", "close_service_log"}
CleanupKinds == {"kill_all", "rm"}

\* C1 as claimed: whenever setup() raises, teardown's full sequence (stop log
\* collection, split logs, cleanup) was executed before
C1_FullTeardownBeforeSetupRaises ==
    SetupRaised =>
        \E t \in At(last.tr, "teardown") :
        \E i \in At(last.tr, "stop_log_collection") :
        \E j \in At(last.tr, "split_logs") :
        \E k \in At(last.tr, "cleanup") : t < i /\ i < j /\ j < k

\* C2 as claimed: the error setup() raises is its own first failure, also when the
\* teardown it runs fails too
C2_SetupRaisesOriginalFailure ==
    SetupRaised =>
        \A i \in 1..Len(last.tr) :
            (~last.tr[i].ok /\ \A m \in 1..(i - 1) : last.tr[m].ok) => last.exc.at = i

\* C3: a teardown() enters cleanup exactly once, after every effect of
\* stop_log_collection and split_logs, whether these succeeded or raised
C3_TeardownCleansUpOnce ==
    /\ last.op = "teardown" => At(last.tr, "teardown") # {}
    /\ \A t \in At(last.tr, "teardown") :
         \E k \in At(last.tr, "cleanup") :
            /\ t < k
            /\ \A m \in At(last.tr, "cleanup") : m > t => m = k
            /\ \A m \in (t + 1)..(k - 1) : last.tr[m].e \in StopSplitKinds
            /\ \A m \in (k + 1)..Len(last.tr) : last.tr[m].e \in CleanupKinds

\* C3 witness: a teardown() in which split_logs raised and cleanup still ran
C3_Witness ==
    /\ last.op = "teardown"
    /\ \E w \in At(last.tr, "write") \cup At(last.tr, "open_r") \cup At(last.tr, "open_service_log") :
          /\ ~last.tr[w].ok
          /\ \E k \in At(last.tr, "cleanup") : w < k

----------------------------------------------------------------------------
(* Properties of the fault-injection scopes *)

\* a scope of this kind was left after its protected block had been entered
ScopeLeft(kind) ==
    last.op = kind /\ Len(last.tr) >= 2 /\ last.tr[2].e = "block"

\* the loop of the scope's wait_for_services raised
WaitRaised == Len(last.tr) = 5 /\ \E k \in 1..Len(last.tr[5].a) : last.tr[5].a[k] = "raise"

\* C4 as claimed: a container_down(svc) whose block was entered issued exactly
\* kill(svc), block, restart(svc), wait_for([svc]), and when the block raised, the
\* error of the block is the one that propagates
C4_DownRestoresAndRewaits ==
    ScopeLeft("container_down") =>
        /\ last.tr[1] = Ev("kill", last.name, TRUE)
        /\ Len(last.tr) >= 4
        /\ last.tr[3].e = "restart" /\ last.tr[3].a = last.name
        /\ last.tr[4] = Ev("wait_for", <<last.name>>, TRUE)
        /\ ~last.tr[2].ok => last.exc = [type |-> "BlockError", at |-> 2]

\* C4 as amended: a container_down(svc) whose kill succeeded issues kill(svc), runs
\* the block and issues restart(svc) on every exit path; wait_for([svc]) follows
\* exactly when restart succeeded; the error that propagates is that of restart if it
\* failed, else that of the wait if it raised, else that of the block if it raised
C4_DownRestores ==
    ScopeLeft("container_down") =>
        /\ last.tr[1] = Ev("kill", last.name, TRUE)
        /\ Len(last.tr) >= 3
        /\ last.tr[3].e = "restart" /\ last.tr[3].a = last.name
        /\ last.tr[3].ok <=> (Len(last.tr) >= 4 /\ last.tr[4] = Ev("wait_for", <<last.name>>, TRUE))
        /\ last.exc = IF ~last.tr[3].ok THEN [type |-> "RuntimeError", at |-> 3]
                      ELSE IF WaitRaised THEN [type |-> "RuntimeError", at |-> 5]
                      ELSE IF ~last.tr[2].ok THEN [type |-> "BlockError", at |-> 2]
                      ELSE NoExc

\* C4 witness: a container_down scope whose block raised, that restarted and waited,
\* and raised the error of the block
C4_Witness ==
    /\ ScopeLeft("container_down")
    /\ ~last.tr[2].ok
    /\ Len(last.tr) = 5 /\ last.tr[3].ok
    /\ last.exc.type = "BlockError"

\* C5 as claimed: a container_paused scope whose block was entered issues
\* unpause(svc) and then the wait restricted to svc on every exit path, and the
\* container is not paused when the scope has been left
C5_PausedUnpausesAndRewaits ==
    ScopeLeft("container_paused") =>
        /\ last.tr[1] = Ev("pause", last.name, TRUE)
        /\ Len(last.tr) >= 4
        /\ last.tr[3].e = "unpause" /\ last.tr[3].a = last.name
        /\ last.tr[4] = Ev("wait_for", <<last.name>>, TRUE)
        /\ last.obs.status # "paused"

\* C5 as amended: a container_paused scope whose pause succeeded issues
\* unpause(svc) on every exit path; the wait restricted to svc follows exactly when
\* unpause succeeded, and then the container is not paused when the scope is left;
\* when unpause fails its error is raised and no wait is issued
C5_PausedUnpauses ==
    ScopeLeft("container_paused") =>
        /\ last.tr[1] = Ev("pause", last.name, TRUE)
        /\ Len(last.tr) >= 3
        /\ last.tr[3].e = "unpause" /\ last.tr[3].a = last.name
        /\ last.tr[3].ok <=> (Len(last.tr) >= 4 /\ last.tr[4] = Ev("wait_for", <<last.name>>, TRUE))
        /\ last.tr[3].ok => last.obs.status # "paused"
        /\ ~last.tr[3].ok => last.exc = [type |-> "RuntimeError", at |-> 3]

\* C5 witness: a container_paused scope whose block raised, that unpaused and waited
C5_Witness ==
    /\ ScopeLeft("container_paused")
    /\ ~last.tr[2].ok
    /\ Len(last.tr) = 5 /\ last.tr[3].ok /\ last.tr[3].e = "unpause"
    /\ last.obs.status # "paused"

----------------------------------------------------------------------------
(* Properties of the calls that take a service name *)

NameOps ==
    {"kill_container", "restart_container", "pause_container", "unpause_container",
     "get_container_id", "is_container_ready", "container_down", "container_paused"}

\* C6: a call with a name that is not a service raises ValueError having issued no
\* command, and no scope is entered for such a name
C6_UnknownNameRejected ==
    /\ (last.op \in NameOps /\ last.name \notin ServiceSet) =>
          (last.exc.type = "ValueError" /\ last.tr = <<>>)
    /\ last.op = "enter" => last.name \in ServiceSet
    /\ \A i \in 1..Len(scope) : scope[i].name \in ServiceSet

\* C6 witness: container_paused was called with a name that is not a service
C6_Witness ==
    last.op = "container_paused" /\ last.name = ghost

----------------------------------------------------------------------------
(* Properties of the readiness probe *)

\* is_container_ready returned after inspecting a container state
Probed == last.op = "is_container_ready" /\ last.obs # NoObs

\* C7: with a health-check field the probe returns true exactly when the health
\* status is healthy; without one exactly when the run status is running
C7_ReadyByHealthElseStatus ==
    Probed =>
        last.result = IF last.obs.health # "none"
                      THEN PyBool(last.obs.health = "healthy")
                      ELSE PyBool(last.obs.status = "running")

\* C7 witness: a running container whose health status is starting is not ready
C7_Witness ==
    /\ Probed
    /\ last.obs = [status |-> "running", health |-> "starting"]
    /\ last.result = "False"

\* C8 as claimed: for a container that is not running the probe returns false,
\* whatever the health status
C8_NotRunningNotReady ==
    (Probed /\ last.obs.status = "exited") => last.result = "False"

\* C8 as amended: for a container that is not running the probe returns false
\* unless the state has a health-check field whose status is healthy
C8_NotRunningReadyOnlyIfHealthy ==
    (Probed /\ last.obs.status = "exited") =>
        (last.result = "True" <=> last.obs.health = "healthy")

\* C8 witness: a stopped container without a health check is not ready
C8_Witness ==
    /\ Probed
    /\ last.obs = [status |-> "exited", health |-> "none"]
    /\ last.result = "False"

\* C9 as claimed: when resolving the container id fails, is_container_ready
\* returns False and does not raise
C9_UnresolvedIdIsNotReady ==
    (/\ last.op = "is_container_ready"
     /\ last.name \in ServiceSet
     /\ \E i \in At(last.tr, "ps") : ~last.tr[i].ok)
    => (last.exc = NoExc /\ last.result = "False")

\* C10 as claimed: a wait_for_services for services that did not all become ready
\* returns False and does not raise
C10_WaitTimesOutWithFalse ==
    (/\ last.op = "wait_for_services"
     /\ \A k \in 1..Len(last.tr[1].a) : last.tr[1].a[k] \in ServiceSet
     /\ ~last.tr[Len(last.tr)].ok)
    => (last.exc = NoExc /\ last.result = "False")

----------------------------------------------------------------------------
(* Properties of the waiting loop *)

\* the checks of the last poll of a trace
LastChecks(tr) == tr[Len(tr)].a

\* every probe of a poll returned True
EveryReady(checks) == \A k \in 1..Len(checks) : checks[k] = "True"

\* C11: the loop goes on only after a poll in which not every requested service was
\* ready, a poll happens only while the time slept is a multiple of the interval
\* whose last sleep began before the timeout, and the loop ends with true only in a
\* poll that probed every requested service and found each of them ready
C11_TrueAtFirstPollAllReady ==
    [][wait.active =>
        /\ wait.elapsed = wait.polls * wait.interval
        /\ wait.polls >= 1 =>
              /\ ~wait.tr[Len(wait.tr)].ok
              /\ ~EveryReady(LastChecks(wait.tr))
              /\ wait.elapsed - wait.interval < wait.timeout
        /\ (wait'.active /\ wait' # wait) => wait'.polls = wait.polls + 1
        /\ (~wait'.active /\ last'.tr[Len(last'.tr)].ok) =>
              /\ last'.polls = wait.polls + 1
              /\ Len(LastChecks(last'.tr)) = Len(wait.services)
              /\ EveryReady(LastChecks(last'.tr))
              /\ last'.exc = wait.pending
              /\ wait.caller = "wait_for_services" => last'.result = "True"
        /\ (~wait'.active /\ last'.result = "True") => last'.tr[Len(last'.tr)].ok]_vars

\* C11 witness: wait_for_services for both services returned true at its third
\* poll, the first in which both were ready
C11_Witness ==
    /\ last.op = "wait_for_services"
    /\ last.result = "True"
    /\ last.polls = 3
    /\ last.tr[1].a = services
    /\ LastChecks(last.tr) = <<"True", "True">>

----------------------------------------------------------------------------
(* Properties of log collection *)

\* the collector processes that run and the combined-log handles that are open
Running == {p \in DOMAIN procs : procs[p] = "running"}
OpenHandles == {f \in DOMAIN files : files[f] = "open"}

\* C12 as claimed: after any sequence of setup, teardown, start_log_collection and
\* stop_log_collection at most one collector process runs and at most one handle on
\* the combined log is open
C12_AtMostOneCollectorAndHandle ==
    Cardinality(Running) <= 1 /\ Cardinality(OpenHandles) <= 1

\* the controller has nothing to stop: it holds no collector that still runs and no
\* handle that is still open (nothing was started, or what was started was stopped)
NothingToStop ==
    /\ logs_process = 0 \/ procs[logs_process] = "reaped"
    /\ logs_file = 0 \/ files[logs_file] = "closed"

\* C13 as claimed: stop_log_collection called when nothing was started, or again
\* after the collection was stopped, kills nothing, waits on nothing, closes nothing
\* (close() on the handle it closed before changes no handle) and raises nothing
C13_StopIsIdempotent ==
    [][(NothingToStop /\ last' # last /\ last'.op = "stop_log_collection") =>
          /\ At(last'.tr, "proc_kill") = {}
          /\ At(last'.tr, "proc_wait") = {}
          /\ files' = files
          /\ last'.exc = NoExc]_vars

\* the last call was a teardown, or a setup that ran its rescue teardown, in which
\* split_logs opened the combined log for reading; nothing after that read changes
\* the collector processes or the handles
SplitRead ==
    /\ last.op \in {"teardown", "setup"}
    /\ At(last.tr, "teardown") # {}
    /\ \E i \in At(last.tr, "open_r") : last.tr[i].ok

\* C14 as claimed: when split_logs reads the combined log no collector process
\* started by the controller still runs and no write handle on the file is open
C14_SplitReadsAfterCollectionStopped ==
    SplitRead => (Running = {} /\ OpenHandles = {})

----------------------------------------------------------------------------
(* Properties of log splitting *)

Hello == <<"h", "e", "l", "l", "o", "\n">>

\* the position of the first separator of a line, 0 when it has none
SepAt(line) ==
    IF \E i \in 1..Len(line) : line[i] = SEPARATOR
    THEN CHOOSE i \in 1..Len(line) :
            line[i] = SEPARATOR /\ \A j \in 1..(i - 1) : line[j] # SEPARATOR
    ELSE 0

\* a line of service s: s, an underscore and an instance number before the separator
LineOf(line, s) ==
    /\ SepAt(line) > Len(s) + 1
    /\ SubSeq(line, 1, Len(s)) = s
    /\ line[Len(s) + 1] = UNDERSCORE
    /\ \A j \in (Len(s) + 2)..(SepAt(line) - 1) : line[j] # UNDERSCORE

\* what the lines of a combined log leave in the file of service s when the first
\* `skip` characters after the separator are dropped
RECURSIVE Expected(_, _, _)
Expected(log, s, skip) ==
    IF log = <<>> THEN <<>>
    ELSE (IF LineOf(Head(log), s)
          THEN SubSeq(Head(log), SepAt(Head(log)) + 1 + skip, Len(Head(log)))
          ELSE <<>>) \o Expected(Tail(log), s, skip)

\* a step is a teardown(), or a setup() with its rescue teardown, whose split_logs
\* read the whole combined log
SplitCompleted ==
    /\ <<last, service_logs>>' # <<last, service_logs>>
    /\ last'.op \in {"teardown", "setup"}
    /\ \E i \in At(last'.tr, "open_r") : last'.tr[i].ok
    /\ \A i \in At(last'.tr, "write") : last'.tr[i].ok

----------------------------------------------------------------------------
(* Properties of cleanup and of the order of setup *)

\* C16: with reuse_containers no call issues a kill-all or a remove; without it
\* every cleanup() issues kill-all first, issues remove next exactly when kill-all
\* succeeded, and no remove is issued anywhere else
C16_CleanupKillsThenRemoves ==
    /\ reuse_containers =>
          (At(last.tr, "kill_all") = {} /\ At(last.tr, "rm") = {})
    /\ ~reuse_containers =>
          /\ \A k \in At(last.tr, "cleanup") :
                /\ k < Len(last.tr) /\ last.tr[k + 1].e = "kill_all"
                /\ last.tr[k + 1].ok =>
                      (k + 2 <= Len(last.tr) /\ last.tr[k + 2].e = "rm")
                /\ ~last.tr[k + 1].ok =>
                      (k + 2 <= Len(last.tr) => last.tr[k + 2].e = "teardown")
          /\ \A r \in At(last.tr, "rm") :
                /\ r >= 3
                /\ last.tr[r - 1] = Ev("kill_all", <<>>, TRUE)
                /\ last.tr[r - 2].e = "cleanup"
          /\ \A r \in At(last.tr, "kill_all") : r >= 2 /\ last.tr[r - 1].e = "cleanup"

\* C16 witness: a teardown() without reuse whose cleanup killed and then removed
C16_Witness ==
    /\ ~reuse_containers
    /\ last.op = "teardown"
    /\ \E k \in At(last.tr, "cleanup") :
          /\ k + 2 = Len(last.tr)
          /\ last.tr[k + 1] = Ev("kill_all", <<>>, TRUE)
          /\ last.tr[k + 2].e = "rm"

\* the setup() of the last call up to its rescue teardown, if it has one
SetupPart ==
    IF At(last.tr, "teardown") = {} THEN last.tr
    ELSE SubSeq(last.tr, 1, (CHOOSE i \in At(last.tr, "teardown") :
                                \A j \in At(last.tr, "teardown") : i <= j) - 1)

\* C17: in every setup() the bring-up command is issued only after the cleanup has
\* finished (after a successful remove, unless reuse is requested) and the collector
\* is opened and started only after the bring-up command has succeeded; a setup()
\* in which nothing fails issues cleanup, bring-up, start of collection in that order
C17_SetupOrder ==
    last.op = "setup" =>
        /\ \A u \in At(SetupPart, "up") :
              /\ \E k \in At(SetupPart, "cleanup") : k < u
              /\ ~reuse_containers =>
                    \E r \in At(SetupPart, "rm") : r < u /\ SetupPart[r].ok
        /\ \A p \in At(SetupPart, "start_log_collection") \cup At(SetupPart, "open_w")
                     \cup At(SetupPart, "popen") :
              \E u \in At(SetupPart, "up") : u < p /\ SetupPart[u].ok
        /\ last.exc = NoExc =>
              [i \in 1..Len(last.tr) |-> last.tr[i].e] =
                  <<"setup", "cleanup">>
                  \o (IF reuse_containers THEN <<>> ELSE <<"kill_all", "rm">>)
                  \o <<"run_containers", "up", "start_log_collection", "open_w", "popen">>

\* C17 witness: a setup() without reuse in which nothing failed
C17_Witness ==
    /\ last.op = "setup" /\ last.exc = NoExc
    /\ ~reuse_containers
    /\ Len(last.tr) = 9
    /\ last.tr[4] = Ev("rm", <<>>, TRUE)
    /\ last.tr[6] = Ev("up", <<>>, TRUE)
    /\ last.tr[9] = Ev("popen", <<>>, TRUE)

----------------------------------------------------------------------------
(* Properties of a failing split *)

\* the writes of the last call that met a prefix that is no service
UnknownPrefix == {w \in At(last.tr, "write") : ~last.tr[w].ok}

\* C18: when split_logs meets a line whose prefix is not a service it raises
\* KeyError; every per-service file was opened and is closed again right after, and
\* the cleanup of the enclosing teardown() runs after that; KeyError is what the
\* teardown raises unless its cleanup fails
C18_UnknownPrefixFailsClosed ==
    \A w \in UnknownPrefix :
        /\ last.tr[w].a \notin ServiceSet
        /\ \A i \in 1..Len(services) :
              /\ w + i <= Len(last.tr)
              /\ last.tr[w + i] = Ev("close_service_log", services[i], TRUE)
        /\ \A s \in ServiceSet : service_logs[s].created /\ ~service_logs[s].open
        /\ w + Len(services) + 1 <= Len(last.tr)
        /\ last.tr[w + Len(services) + 1].e = "cleanup"
        /\ (\A m \in (w + 1)..Len(last.tr) : last.tr[m].ok) =>
              (last.op = "teardown" => last.exc = [type |-> "KeyError", at |-> w])

\* C18 witness: a teardown() raised the KeyError of a line of an unknown service
\* after closing both files and cleaning up
C18_Witness ==
    /\ last.op = "teardown"
    /\ last.exc.type = "KeyError"
    /\ \E w \in UnknownPrefix : last.tr[w].a = ghost
    /\ \E r \in At(last.tr, "rm") : last.tr[r].ok
    /\ \A s \in ServiceSet : service_logs[s].created /\ ~service_logs[s].open

----------------------------------------------------------------------------
(* Properties of the entry and of the exit of a scope *)

ScopeKinds == {"container_down", "container_paused"}
EntryOf(kind) == IF kind = "container_down" THEN "kill" ELSE "pause"

\* C19: a scope whose entry command (kill / pause) failed raises that failure
\* having issued nothing else: no block, no restore command, no wait; a scope is
\* open, and its block entered, only after its entry command succeeded
C19_FailedEntryIssuesNothingElse ==
    /\ (last.op \in ScopeKinds /\ Len(last.tr) >= 1 /\ ~last.tr[1].ok) =>
          /\ last.tr = <<Ev(EntryOf(last.op), last.name, FALSE)>>
          /\ last.exc = [type |-> "RuntimeError", at |-> 1]
    /\ last.op = "enter" =>
          (Len(last.tr) = 1 /\ last.tr[1].ok /\ scope # <<>>)
    /\ \A i \in 1..Len(scope) :
          scope[i].tr = <<Ev(EntryOf(scope[i].kind), scope[i].name, TRUE)>>
    /\ (last.op \in ScopeKinds /\ At(last.tr, "block") # {}) => last.tr[1].ok

\* C19 witness: container_down(web) raised because its kill command failed, and no
\* scope is open
C19_Witness ==
    /\ last.op = "container_down"
    /\ last.tr = <<Ev("kill", web, FALSE)>>
    /\ last.exc.type = "RuntimeError"
    /\ scope = <<>>
    /\ ~wait.active

\* C20 as claimed: a scope whose block completed normally and whose restore command
\* succeeded is left without raising, whatever the final wait found
C20_ScopeExitIsSilent ==
    \A kind \in ScopeKinds :
        (ScopeLeft(kind) /\ last.tr[2].ok /\ last.tr[3].ok) =>
            (last.exc = NoExc /\ last.result = "None")

====
